---- MODULE Spec2Model ----
(***************************************************************************)
(* The task / status / pendency lifecycle engine of datahub                *)
(* (core/models.py, core/views.py, core/admin.py) as a state machine.      *)
(*                                                                         *)
(* The database tables are the variables sit, dem and pen.  Every request  *)
(* is run by a process p: pc[p] is its position in the handler and loc[p]  *)
(* holds the handler's local variables (the in-memory model instance, the  *)
(* cascade's `parent` pointer, the rows as they were when the request      *)
(* started).  A request that runs inside a database transaction keeps its  *)
(* uncommitted row versions in tx[p] until Commit.                         *)
(***************************************************************************)
EXTENDS Integers, Sequences, FiniteSets, TLC

VARIABLES sit, dem, pen, today, pc, loc, tx

vars == <<sit, dem, pen, today, pc, loc, tx>>

(***************************************************************************)
(* Bounds of the model.                                                    *)
(***************************************************************************)
NSit == 3
NDem == 3
NPen == 1
MaxDay == 2
NProc == 2

SitIds == 1..NSit
DemIds == 1..NDem
PenIds == 1..NPen
Days == 1..MaxDay
Procs == 1..NProc

\* None / NULL of a nullable column (primary keys and days start at 1).
NULL == 0

\* first(): the row with the lowest primary key of a queryset, or None.
First(S) == IF S = {} THEN NULL ELSE CHOOSE x \in S : \A y \in S : x <= y

Max(S) == CHOOSE x \in S : \A y \in S : y <= x

(***************************************************************************)
(* Status names are strings, here sequences of characters, and the three   *)
(* name tests of the code are computed on them: str.lower(),               *)
(* str.startswith() and the ORM's icontains.                               *)
(***************************************************************************)
LowerChar(c) ==
    CASE c = "F" -> "f"
      [] c = "E" -> "e"
      [] c = "P" -> "p"
      [] c = "S" -> "s"
      [] c = "N" -> "n"
      [] OTHER -> c

Lower(s) == [i \in 1..Len(s) |-> LowerChar(s[i])]

StartsWith(s, pre) ==
    /\ Len(s) >= Len(pre)
    /\ SubSeq(s, 1, Len(pre)) = pre

Contains(s, sub) ==
    \E i \in 1..(Len(s) - Len(sub) + 1) : SubSeq(s, i, i + Len(sub) - 1) = sub

IContains(s, sub) == Contains(Lower(s), Lower(sub))

StrFinal == <<"f", "i", "n", "a", "l">>
StrExec == <<"e", "x", "e", "c">>
StrPend == <<"p", "e", "n", "d">>

\* The status names the model draws from.
NomeFinal == <<"F", "i", "n", "a", "l">>
NomeSemifinal == <<"S", "e", "m", "i", "f", "i", "n", "a", "l">>
NomeExec == <<"E", "x", "e", "c">>
NomePend == <<"P", "e", "n", "d">>
NomeNovo == <<"N", "o", "v", "o">>

(***************************************************************************)
(* The tables and a request's view of them.                                *)
(***************************************************************************)
\* proximas_situacoes (models.py 41) is kept with the row it starts from;
\* blank=True: a status starts with no next status.
SituacaoRow(n, pd, pe) ==
    [nome |-> n, padrao |-> pd, pendente |-> pe, proximas_situacoes |-> {}]

NoDemanda ==
    [exists |-> FALSE, parent |-> NULL, situacao |-> NULL, data_fechamento |-> NULL,
     data_inicio |-> NULL, data_prazo |-> NULL, responsavel |-> NULL]

NoPendencia == [exists |-> FALSE, demanda |-> NULL, resolvida |-> FALSE, resolvido_em |-> NULL]

NoRows == [x \in {} |-> NULL]

\* A statement's write set: the new versions of the rows it writes.
NoWrite == [sit |-> NoRows, dem |-> NoRows, pen |-> NoRows]

Tables == [sit |-> sit, dem |-> dem, pen |-> pen]

Merge(rows, table) ==
    [x \in DOMAIN table \cup DOMAIN rows |-> IF x \in DOMAIN rows THEN rows[x] ELSE table[x]]

MergeAll(w, t) ==
    [sit |-> Merge(w.sit, t.sit), dem |-> Merge(w.dem, t.dem), pen |-> Merge(w.pen, t.pen)]

\* The rows process p reads: the committed rows, overlaid with the rows it
\* has written in its own open transaction.
View(p) == MergeAll(tx[p], Tables)

\* A row another open transaction has written is locked until it commits.
Locked(p, w) ==
    \E q \in Procs \ {p} :
       \/ DOMAIN w.sit \cap DOMAIN tx[q].sit # {}
       \/ DOMAIN w.dem \cap DOMAIN tx[q].dem # {}
       \/ DOMAIN w.pen \cap DOMAIN tx[q].pen # {}

\* A statement of process p that writes the rows w: to the tables, or to
\* p's open transaction.
Write(p, w) ==
    /\ ~Locked(p, w)
    /\ IF loc[p].atomic
       THEN /\ tx' = [tx EXCEPT ![p] = [sit |-> Merge(w.sit, @.sit),
                                        dem |-> Merge(w.dem, @.dem),
                                        pen |-> Merge(w.pen, @.pen)]]
            /\ UNCHANGED <<sit, dem, pen>>
       ELSE /\ sit' = Merge(w.sit, sit)
            /\ dem' = Merge(w.dem, dem)
            /\ pen' = Merge(w.pen, pen)
            /\ tx' = tx

\* A post_save handler that leaves the other default flags alone.
ClearPadraoRowsNone(sitv, pk) == NoRows

(***************************************************************************)
(* Situacao (models.py 25-47) and its post_save handler (178-194).         *)
(***************************************************************************)
\* Situacao.objects.exclude(pk=instance.pk).filter(padrao=True).update(padrao=False)
ClearPadraoRows(sitv, pk) ==
    LET hit == {s \in SitIds : s # pk /\ sitv[s].padrao}
    IN  [s \in hit |-> [sitv[s] EXCEPT !.padrao = FALSE]]

\* A post_save handler that leaves the other pending flags alone.
ClearPendenteRowsNone(sitv, pk) == NoRows

\* Situacao.objects.exclude(pk=instance.pk).filter(pendente=True).update(pendente=False)
ClearPendenteRows(sitv, pk) ==
    LET hit == {s \in SitIds : s # pk /\ sitv[s].pendente}
    IN  [s \in hit |-> [sitv[s] EXCEPT !.pendente = FALSE]]

(***************************************************************************)
(* Requests.  loc[p] of an idle process is IdleLoc.  `pre` are the tables  *)
(* as the request found them.                                              *)
(***************************************************************************)
IdleLoc == [op |-> "none"]

\* SituacaoAdmin's change view: the form's values go to the instance.
BeginSaveSituacao(p, s, n, pd, pe, atm) ==
    /\ pc[p] = "idle"
    /\ pc' = [pc EXCEPT ![p] = "sit_save"]
    /\ loc' = [loc EXCEPT ![p] =
                 [op |-> "SaveSituacao",
                  inst |-> [pk |-> s, nome |-> n, padrao |-> pd, pendente |-> pe],
                  atomic |-> atm,
                  pre |-> Tables]]
    /\ UNCHANGED <<sit, dem, pen, today, tx>>

\* Model.save(): the row of the instance is written, every column; the
\* many-to-many proximas_situacoes is no column and stays as it is.
SitSave(p) ==
    /\ pc[p] = "sit_save"
    /\ LET i == loc[p].inst
           row == [SituacaoRow(i.nome, i.padrao, i.pendente) EXCEPT
                     !.proximas_situacoes = View(p).sit[i.pk].proximas_situacoes]
       IN  Write(p, [NoWrite EXCEPT !.sit = i.pk :> row])
    /\ pc' = [pc EXCEPT ![p] = "sit_post_padrao"]
    /\ UNCHANGED <<today, loc>>

\* situacao_post_save, lines 185-188.
SitPostPadrao(p) ==
    /\ pc[p] = "sit_post_padrao"
    /\ IF loc[p].inst.padrao
       THEN Write(p, [NoWrite EXCEPT !.sit = ClearPadraoRows(View(p).sit, loc[p].inst.pk)])
       ELSE UNCHANGED <<sit, dem, pen, tx>>
    /\ pc' = [pc EXCEPT ![p] = "sit_post_pendente"]
    /\ UNCHANGED <<today, loc>>

\* situacao_post_save, lines 191-194.
SitPostPendente(p) ==
    /\ pc[p] = "sit_post_pendente"
    /\ IF loc[p].inst.pendente
       THEN Write(p, [NoWrite EXCEPT !.sit = ClearPendenteRows(View(p).sit, loc[p].inst.pk)])
       ELSE UNCHANGED <<sit, dem, pen, tx>>
    /\ pc' = [pc EXCEPT ![p] = "commit"]
    /\ UNCHANGED <<today, loc>>

(***************************************************************************)
(* Demanda (models.py 75-139) and its post_save handler (142-175).         *)
(***************************************************************************)
\* timedelta(days=7)
PrazoDias == 7

\* get_object_or_404(Demanda, pk=d): the row as an in-memory instance.
LoadDemanda(demv, d) == [pk |-> d] @@ demv[d]

\* The row Model.save() writes for an instance: every column.
DemandaRow(i) ==
    [exists |-> TRUE, parent |-> i.parent, situacao |-> i.situacao,
     data_fechamento |-> i.data_fechamento, data_inicio |-> i.data_inicio,
     data_prazo |-> i.data_prazo, responsavel |-> i.responsavel]

\* A lookup that finds no default status.
DefaultSitNone(sitv) == NULL

\* Situacao.objects.filter(padrao=True).first()
DefaultSit(sitv) == First({s \in SitIds : sitv[s].padrao})

\* A save that derives the due date whenever there is a start date.
SaveFieldsOverride(i, sitv) ==
    [i EXCEPT !.situacao = IF @ = NULL THEN DefaultSit(sitv) ELSE @,
              !.data_prazo = IF i.data_inicio # NULL
                             THEN i.data_inicio + PrazoDias ELSE @]

\* A save that derives the due date of a new task only.
SaveFieldsOnce(i, sitv) ==
    [i EXCEPT !.situacao = IF @ = NULL THEN DefaultSit(sitv) ELSE @,
              !.data_prazo = IF i.data_inicio # NULL /\ @ = NULL /\ ~dem[i.pk].exists
                             THEN i.data_inicio + PrazoDias ELSE @]

\* Demanda.save, lines 119-128: the instance as it is written.
SaveFields(i, sitv) ==
    [i EXCEPT !.situacao = IF @ = NULL THEN DefaultSit(sitv) ELSE @,
              !.data_prazo = IF i.data_inicio # NULL /\ @ = NULL
                             THEN i.data_inicio + PrazoDias ELSE @]

\* situacao.nome.lower().startswith("final")
NomeIsFinal(n) == StartsWith(Lower(n), StrFinal)

\* Demanda.is_final, of a row or of an instance.
IsFinal(r, sitv) == r.situacao # NULL /\ NomeIsFinal(sitv[r.situacao].nome)

\* parent.subitens.all()
Subitens(demv, par) == {c \in DemIds : demv[c].exists /\ demv[c].parent = par}

\* Situacao.objects.filter(nome__icontains="final").first()
FinalSit(sitv) == First({s \in SitIds : IContains(sitv[s].nome, StrFinal)})

\* all(s.is_final() for s in subs)
AllFinal(v, par) == \A c \in Subitens(v.dem, par) : IsFinal(v.dem[c], v.sit)

\* Lines 164-165: max(s.data_fechamento or today for s in subs).
Latest(v, par, tdy) ==
    Max({IF v.dem[c].data_fechamento # NULL THEN v.dem[c].data_fechamento ELSE tdy :
           c \in Subitens(v.dem, par)})

\* Lines 166-171: the row of the parent as the cascade updates it.
CascadeRow(v, par, latest) ==
    [v.dem[par] EXCEPT !.data_fechamento = latest,
                       !.situacao = IF FinalSit(v.sit) # NULL THEN FinalSit(v.sit) ELSE @]

\* The ids of the Pendencia table that are free (the model's bound on it).
FreePen(penv) == {q \in PenIds : ~penv[q].exists}

\* The locals of a request that saves the Demanda instance i; arg keeps the
\* instance as the request handed it to save().
DemandaLoc(name, i, atm, desc) ==
    [op |-> name, inst |-> i, arg |-> i, atomic |-> atm, desc |-> desc, pre |-> Tables,
     cur |-> NULL, wtoday |-> NULL, latest |-> NULL]

\* alterar_status_view (views.py 99-121), a POST: d.situacao = target.
BeginAlterarStatus(p, d, target, desc) ==
    /\ pc[p] = "idle"
    /\ View(p).dem[d].exists
    /\ desc => FreePen(View(p).pen) # {}
    /\ pc' = [pc EXCEPT ![p] = "dem_save"]
    /\ loc' = [loc EXCEPT ![p] =
                 DemandaLoc("AlterarStatus",
                            [LoadDemanda(View(p).dem, d) EXCEPT !.situacao = target],
                            FALSE, desc)]
    /\ UNCHANGED <<sit, dem, pen, today, tx>>

\* alterar_status_view, a GET: the form is rendered or the browser is
\* redirected; nothing is saved.
AlterarStatusGet(p, d, target) ==
    /\ pc[p] = "idle"
    /\ View(p).dem[d].exists
    /\ pc' = [pc EXCEPT ![p] = "done"]
    /\ loc' = [loc EXCEPT ![p] =
                 DemandaLoc("AlterarStatusGet", LoadDemanda(View(p).dem, d), FALSE, FALSE)]
    /\ UNCHANGED <<sit, dem, pen, today, tx>>

\* DemandaAdmin.save_formset (admin.py 349-376) for a row of SubitemInline:
\* the inline's fields go to the child's instance; its parent is set.
BeginInlineSubitem(p, c, s, prazo, resp, atm) ==
    /\ pc[p] = "idle"
    /\ View(p).dem[c].exists
    /\ View(p).dem[c].parent # NULL
    /\ pc' = [pc EXCEPT ![p] = "dem_save"]
    /\ loc' = [loc EXCEPT ![p] =
                 DemandaLoc("InlineSubitem",
                            [LoadDemanda(View(p).dem, c) EXCEPT
                               !.situacao = s, !.data_prazo = prazo, !.responsavel = resp],
                            atm, FALSE)]
    /\ UNCHANGED <<sit, dem, pen, today, tx>>

\* DemandaAdmin's change view with DemandaForm (admin.py 12-37, 241-255):
\* situacao and data_fechamento are read-only, the other fields are the
\* form's.  DemandaForm.clean checks the pendency description only.
BeginAdminChange(p, d, par, ini, prazo, resp, desc, atm) ==
    /\ pc[p] = "idle"
    /\ View(p).dem[d].exists
    /\ par # NULL => View(p).dem[par].exists
    /\ desc => FreePen(View(p).pen) # {}
    /\ pc' = [pc EXCEPT ![p] = "dem_save"]
    /\ loc' = [loc EXCEPT ![p] =
                 DemandaLoc("AdminChange",
                            [LoadDemanda(View(p).dem, d) EXCEPT
                               !.parent = par, !.data_inicio = ini,
                               !.data_prazo = prazo, !.responsavel = resp],
                            atm, desc)]
    /\ UNCHANGED <<sit, dem, pen, today, tx>>

\* The ids of the Demanda table that are free.
FreeDem(demv) == {d \in DemIds : ~demv[d].exists}

\* DemandaAdmin's add view (admin.py 241-255): a new task with the form's
\* fields; situacao and data_fechamento are read-only and stay unset.
BeginAdminAdd(p, d, par, ini, prazo, resp, desc, atm) ==
    /\ pc[p] = "idle"
    /\ d = First(FreeDem(View(p).dem))
    /\ d # NULL
    /\ par # NULL => View(p).dem[par].exists
    /\ desc => FreePen(View(p).pen) # {}
    /\ pc' = [pc EXCEPT ![p] = "dem_save"]
    /\ loc' = [loc EXCEPT ![p] =
                 DemandaLoc("AdminAdd",
                            [[pk |-> d] @@ NoDemanda EXCEPT
                               !.exists = TRUE, !.parent = par, !.data_inicio = ini,
                               !.data_prazo = prazo, !.responsavel = resp],
                            atm, desc)]
    /\ UNCHANGED <<sit, dem, pen, today, tx>>

\* The take action (views.py 29-33, admin.py 229-239): the task is loaded,
\* its responsavel is set to the user of the request, and it is saved.
BeginTake(p, d, u) ==
    /\ pc[p] = "idle"
    /\ View(p).dem[d].exists
    /\ pc' = [pc EXCEPT ![p] = "dem_save"]
    /\ loc' = [loc EXCEPT ![p] =
                 DemandaLoc("Take",
                            [LoadDemanda(View(p).dem, d) EXCEPT !.responsavel = u],
                            FALSE, FALSE)]
    /\ UNCHANGED <<sit, dem, pen, today, tx>>

\* Demanda.save (models.py 117-129).
DemSave(p) ==
    /\ pc[p] = "dem_save"
    /\ LET i == SaveFields(loc[p].inst, View(p).sit)
       IN  /\ Write(p, [NoWrite EXCEPT !.dem = i.pk :> DemandaRow(i)])
           /\ loc' = [loc EXCEPT ![p].inst = i]
    /\ pc' = [pc EXCEPT ![p] = "dem_post"]
    /\ UNCHANGED today

\* demanda_post_save, lines 149-156.
DemPost(p) ==
    /\ pc[p] = "dem_post"
    /\ LET i == loc[p].inst
           v == View(p)
       IN  /\ IF IsFinal(i, v.sit) /\ i.data_fechamento = NULL
              THEN Write(p, [NoWrite EXCEPT
                               !.dem = i.pk :> [v.dem[i.pk] EXCEPT !.data_fechamento = today]])
              ELSE UNCHANGED <<sit, dem, pen, tx>>
           /\ loc' = [loc EXCEPT ![p].cur = i.parent, ![p].wtoday = today]
    /\ pc' = [pc EXCEPT ![p] = "walk"]
    /\ UNCHANGED today

\* The head of a turn of the while loop, lines 157-165: the children are
\* read and the turn is decided.
WalkRead(p) ==
    /\ pc[p] = "walk"
    /\ LET par == loc[p].cur
           v == View(p)
       IN  IF par # NULL /\ Subitens(v.dem, par) # {} /\ AllFinal(v, par)
           THEN /\ loc' = [loc EXCEPT ![p].latest = Latest(v, par, loc[p].wtoday)]
                /\ pc' = [pc EXCEPT ![p] = "walk_update"]
           ELSE /\ loc' = loc
                /\ pc' = [pc EXCEPT ![p] = "dem_after"]
    /\ UNCHANGED <<sit, dem, pen, today, tx>>

\* The rest of the turn, lines 166-173: the parent is updated and the walk
\* moves one level up.
WalkUpdate(p) ==
    /\ pc[p] = "walk_update"
    /\ LET par == loc[p].cur
           v == View(p)
       IN  /\ Write(p, [NoWrite EXCEPT !.dem = par :> CascadeRow(v, par, loc[p].latest)])
           /\ loc' = [loc EXCEPT ![p].cur = v.dem[par].parent, ![p].latest = NULL]
    /\ pc' = [pc EXCEPT ![p] = "walk"]
    /\ UNCHANGED today


\* A lookup that falls back on the first status when none is named 'exec'.
ExecSitAny(sitv) ==
    IF \E s \in SitIds : IContains(sitv[s].nome, StrExec)
    THEN First({s \in SitIds : IContains(sitv[s].nome, StrExec)})
    ELSE First(SitIds)

(***************************************************************************)
(* Pendencia (models.py 58-72) and its handlers (197-238).                 *)
(***************************************************************************)
\* Situacao.objects.filter(nome__icontains="exec").first()
ExecSit(sitv) == First({s \in SitIds : IContains(sitv[s].nome, StrExec)})

\* Situacao.objects.filter(nome__icontains="pend").first()
PendSit(sitv) == First({s \in SitIds : IContains(sitv[s].nome, StrPend)})

\* An update of the status that leaves the closure date alone.
ReopenRowsKeepClosure(demv, d, s) ==
    IF s # NULL /\ demv[d].exists
    THEN d :> [demv[d] EXCEPT !.situacao = s]
    ELSE NoRows

\* An update that moves the parent of the task along with the task.
ReopenRowsWithParent(demv, d, s) ==
    IF s # NULL /\ demv[d].exists
    THEN LET par == demv[d].parent
             own == d :> [demv[d] EXCEPT !.situacao = s, !.data_fechamento = NULL]
         IN  IF par # NULL /\ demv[par].exists
             THEN own @@ (par :> [demv[par] EXCEPT !.situacao = s, !.data_fechamento = NULL])
             ELSE own
    ELSE NoRows

\* Demanda.objects.filter(pk=d).update(situacao_id=s, data_fechamento=None)
ReopenRows(demv, d, s) ==
    IF s # NULL /\ demv[d].exists
    THEN d :> [demv[d] EXCEPT !.situacao = s, !.data_fechamento = NULL]
    ELSE NoRows

\* A handler that never touches the resolution time.
ResolvidoEmRowsNone(penv, q, t) == NoRows

\* Pendencia.objects.filter(pk=q).update(resolvido_em=t)
ResolvidoEmRows(penv, q, t) ==
    IF penv[q].exists THEN q :> [penv[q] EXCEPT !.resolvido_em = t] ELSE NoRows

\* pendencia_post_save, lines 217-238: what it writes for instance i, whose
\* previous `resolvida` was `was`.
PendenciaPostWrite(v, i, was, t) ==
    IF ~was /\ i.resolvida
    THEN [NoWrite EXCEPT
            !.pen = IF i.resolvido_em = NULL THEN ResolvidoEmRows(v.pen, i.pk, t) ELSE NoRows,
            !.dem = ReopenRows(v.dem, i.demanda, ExecSit(v.sit))]
    ELSE IF was /\ ~i.resolvida
    THEN [NoWrite EXCEPT
            !.pen = IF i.resolvido_em # NULL THEN ResolvidoEmRows(v.pen, i.pk, NULL) ELSE NoRows,
            !.dem = ReopenRows(v.dem, i.demanda, PendSit(v.sit))]
    ELSE NoWrite

\* After d.save(): Pendencia.objects.create(...) when a description was
\* given (views.py 118-119, admin.py 252-255).  The created Pendencia is
\* open and has no previous row: pendencia_post_save runs with was = False.
DemAfter(p) ==
    /\ pc[p] = "dem_after"
    /\ IF loc[p].desc
       THEN /\ FreePen(View(p).pen) # {}
            /\ LET q == First(FreePen(View(p).pen))
                   row == [exists |-> TRUE, demanda |-> loc[p].inst.pk,
                           resolvida |-> FALSE, resolvido_em |-> NULL]
                   post == PendenciaPostWrite(View(p), [pk |-> q] @@ row, FALSE, today)
               IN  Write(p, [post EXCEPT !.pen = Merge(@, q :> row)])
       ELSE UNCHANGED <<sit, dem, pen, tx>>
    /\ pc' = [pc EXCEPT ![p] = "commit"]
    /\ UNCHANGED <<today, loc>>

\* PendenciaInline (admin.py 52-57) saved by save_formset: `resolvida` is
\* the one editable field.
BeginSavePendencia(p, q, r, atm) ==
    /\ pc[p] = "idle"
    /\ View(p).pen[q].exists
    /\ pc' = [pc EXCEPT ![p] = "pen_pre"]
    /\ loc' = [loc EXCEPT ![p] =
                 [op |-> "SavePendencia",
                  inst |-> [[pk |-> q] @@ View(p).pen[q] EXCEPT !.resolvida = r],
                  atomic |-> atm, pre |-> Tables, was |-> FALSE]]
    /\ UNCHANGED <<sit, dem, pen, today, tx>>

\* A pre_save handler that reads no previous row.
PenPreSaveNoRead(p) ==
    /\ pc[p] = "pen_pre"
    /\ loc' = [loc EXCEPT ![p].was = FALSE]
    /\ pc' = [pc EXCEPT ![p] = "pen_save"]
    /\ UNCHANGED <<sit, dem, pen, today, tx>>

\* pendencia_pre_save, lines 197-207.
PenPreSave(p) ==
    /\ pc[p] = "pen_pre"
    /\ LET old == View(p).pen[loc[p].inst.pk]
       IN  loc' = [loc EXCEPT ![p].was = IF old.exists THEN old.resolvida ELSE FALSE]
    /\ pc' = [pc EXCEPT ![p] = "pen_save"]
    /\ UNCHANGED <<sit, dem, pen, today, tx>>

\* Model.save(): the row of the instance is written, every column.
PenSave(p) ==
    /\ pc[p] = "pen_save"
    /\ LET i == loc[p].inst
       IN  Write(p, [NoWrite EXCEPT
                       !.pen = i.pk :> [exists |-> TRUE, demanda |-> i.demanda,
                                        resolvida |-> i.resolvida,
                                        resolvido_em |-> i.resolvido_em]])
    /\ pc' = [pc EXCEPT ![p] = "pen_post"]
    /\ UNCHANGED <<today, loc>>

\* pendencia_post_save, lines 210-238.
PenPost(p) ==
    /\ pc[p] = "pen_post"
    /\ Write(p, PendenciaPostWrite(View(p), loc[p].inst, loc[p].was, today))
    /\ pc' = [pc EXCEPT ![p] = "commit"]
    /\ UNCHANGED <<today, loc>>

(***************************************************************************)
(* Deletion of a Demanda (admin delete view; admin.py 375-376 for a row of  *)
(* SubitemInline) with the on_delete rules of models.py 59-61 and 87-94.    *)
(***************************************************************************)
\* on_delete=SET_NULL: the children of d lose their parent.
SetNullRows(demv, d) ==
    [c \in Subitens(demv, d) \ {d} |-> [demv[c] EXCEPT !.parent = NULL]]

\* on_delete=CASCADE: the pendencies of d go with it.
CascadeDeleteRows(penv, d) ==
    [q \in {x \in PenIds : penv[x].exists /\ penv[x].demanda = d} |-> NoPendencia]

\* What obj.delete() writes for the Demanda d.
DeleteWrite(v, d) ==
    [NoWrite EXCEPT !.dem = Merge(d :> NoDemanda, SetNullRows(v.dem, d)),
                    !.pen = CascadeDeleteRows(v.pen, d)]

BeginDeleteDemanda(p, d, atm) ==
    /\ pc[p] = "idle"
    /\ View(p).dem[d].exists
    /\ pc' = [pc EXCEPT ![p] = "dem_delete"]
    /\ loc' = [loc EXCEPT ![p] =
                 [op |-> "DeleteDemanda", inst |-> LoadDemanda(View(p).dem, d),
                  atomic |-> atm, pre |-> Tables]]
    /\ UNCHANGED <<sit, dem, pen, today, tx>>

\* obj.delete(): one statement batch; no signal handler is registered for it.
DemDelete(p) ==
    /\ pc[p] = "dem_delete"
    /\ Write(p, DeleteWrite(View(p), loc[p].inst.pk))
    /\ pc' = [pc EXCEPT ![p] = "commit"]
    /\ UNCHANGED <<today, loc>>

\* The end of the request's transaction: its row versions become the
\* committed ones (nothing to do for a request that ran in autocommit).
Commit(p) ==
    /\ pc[p] = "commit"
    /\ sit' = Merge(tx[p].sit, sit)
    /\ dem' = Merge(tx[p].dem, dem)
    /\ pen' = Merge(tx[p].pen, pen)
    /\ tx' = [tx EXCEPT ![p] = NoWrite]
    /\ pc' = [pc EXCEPT ![p] = "done"]
    /\ UNCHANGED <<today, loc>>

\* The response is sent; the handler's locals are gone.
Return(p) ==
    /\ pc[p] = "done"
    /\ pc' = [pc EXCEPT ![p] = "idle"]
    /\ loc' = [loc EXCEPT ![p] = IdleLoc]
    /\ UNCHANGED <<sit, dem, pen, today, tx>>

\* The clock: timezone.now().
Tick ==
    /\ \A p \in Procs : pc[p] = "idle"
    /\ today < MaxDay
    /\ today' = today + 1
    /\ UNCHANGED <<sit, dem, pen, pc, loc, tx>>

InitProcs ==
    /\ pc = [p \in Procs |-> "idle"]
    /\ loc = [p \in Procs |-> IdleLoc]
    /\ tx = [p \in Procs |-> NoWrite]

Quiet == \A p \in Procs : pc[p] \in {"idle", "done"}

(***************************************************************************)
(* SpecSit: the status registry, one request at a time.                    *)
(***************************************************************************)
RegistryNomes == {NomeNovo, NomePend, NomeFinal}

InitSit ==
    /\ sit = [s \in SitIds |-> SituacaoRow(NomeNovo, FALSE, FALSE)]
    /\ dem = [d \in DemIds |-> NoDemanda]
    /\ pen = [q \in PenIds |-> NoPendencia]
    /\ today = 1
    /\ InitProcs

NextSit ==
    \/ \E s \in SitIds, n \in RegistryNomes, pd \in BOOLEAN, pe \in BOOLEAN :
          BeginSaveSituacao(1, s, n, pd, pe, FALSE)
    \/ SitSave(1)
    \/ SitPostPadrao(1)
    \/ SitPostPendente(1)
    \/ Commit(1)
    \/ Return(1)

SpecSit == InitSit /\ [][NextSit]_vars

\* The statuses of a table that carry the default flag.
Defaults(sitv) == {s \in SitIds : sitv[s].padrao}

\* C1: when status saves run one at a time, at most one status carries the
\* default flag once a save is over, and the status a save has just marked
\* as default is the one that carries it.
C1_SingleDefault ==
    Quiet =>
       /\ Cardinality(Defaults(sit)) <= 1
       /\ \A p \in Procs :
             (pc[p] = "done" /\ loc[p].op = "SaveSituacao" /\ loc[p].inst.padrao)
                => Defaults(sit) = {loc[p].inst.pk}

\* C1: a save has just marked a status as default while another status
\* carried the flag before it.
C1_Witness ==
    \E p \in Procs :
       /\ pc[p] = "done" /\ loc[p].op = "SaveSituacao" /\ loc[p].inst.padrao
       /\ Defaults(loc[p].pre.sit) # {}
       /\ loc[p].inst.pk \notin Defaults(loc[p].pre.sit)
       /\ Defaults(sit) = {loc[p].inst.pk}

(***************************************************************************)
(* SpecTree: a tree of three tasks whose statuses are changed, one request *)
(* at a time.                                                              *)
(***************************************************************************)
\* A catalog of statuses: the names of a sequence, by primary key.
Catalog(names) ==
    [s \in SitIds |-> SituacaoRow(IF s <= Len(names) THEN names[s] ELSE NomeNovo, FALSE, FALSE)]

TreeCatalogs ==
    {Catalog(<<NomeExec, NomePend, NomeFinal>>),
     Catalog(<<NomeExec, NomeSemifinal, NomeFinal>>),
     Catalog(<<NomeExec, NomeFinal, NomeSemifinal>>)}

\* A root task, created with no status, start or due date.
RootDemanda == [NoDemanda EXCEPT !.exists = TRUE]

\* Task 1 with the children 2.., or the chain .. -> 3 -> 2 -> 1.
TreeShapes ==
    {[d \in DemIds |-> [RootDemanda EXCEPT !.parent = IF d = 1 THEN NULL ELSE 1]],
     [d \in DemIds |-> [RootDemanda EXCEPT !.parent = d - 1]]}

InitTree ==
    /\ sit \in TreeCatalogs
    /\ dem \in TreeShapes
    /\ pen = [q \in PenIds |-> NoPendencia]
    /\ today = 1
    /\ InitProcs

NextTree ==
    \/ \E d \in DemIds, t \in SitIds : BeginAlterarStatus(1, d, t, FALSE)
    \/ \E c \in DemIds, s \in SitIds \cup {NULL} :
          BeginInlineSubitem(1, c, s, dem[c].data_prazo, dem[c].responsavel, FALSE)
    \/ \E d \in DemIds :
          BeginAdminChange(1, d, dem[d].parent, dem[d].data_inicio, dem[d].data_prazo,
                           dem[d].responsavel, FALSE, FALSE)
    \/ DemSave(1)
    \/ DemPost(1)
    \/ WalkRead(1)
    \/ WalkUpdate(1)
    \/ DemAfter(1)
    \/ Commit(1)
    \/ Return(1)
    \/ Tick

SpecTree == InitTree /\ [][NextTree]_vars

\* The requests that save a task.
SaveOps == {"AlterarStatus", "InlineSubitem", "AdminChange"}

\* A status that is_final accepts is configured.
HasFinal == \E s \in SitIds : NomeIsFinal(sit[s].nome)

\* The latest closure date among the children of a task.
ClosureMax(par) == Max({dem[c].data_fechamento : c \in Subitens(dem, par)})

\* The save of process p is over and was the save of a child of a task with
\* at least two children, with a final status configured.
ChildSaved(p) ==
    /\ pc[p] = "done" /\ loc[p].op \in SaveOps
    /\ loc[p].inst.parent # NULL
    /\ Cardinality(Subitens(dem, loc[p].inst.parent)) >= 2
    /\ HasFinal

\* C2: given a task with at least two children and a final status
\* configured, once every child has been saved in a terminal status the
\* parent is terminal with the latest closure date of its children, and
\* while a child is non-terminal the save of another child as terminal
\* leaves the parent's status and closure date as they were.
C2_ParentFollowsChildren ==
    \A p \in Procs :
       ChildSaved(p) =>
          LET par == loc[p].inst.parent
              old == loc[p].pre.dem[par]
          IN  /\ AllFinal(Tables, par) =>
                    /\ IsFinal(dem[par], sit)
                    /\ dem[par].data_fechamento = ClosureMax(par)
              /\ (IsFinal(dem[loc[p].inst.pk], sit) /\ ~AllFinal(Tables, par)) =>
                    /\ dem[par].situacao = old.situacao
                    /\ dem[par].data_fechamento = old.data_fechamento

\* C4: in every persisted state a task has a closure date exactly when its
\* status is terminal.
C4_ClosureIffFinal ==
    Quiet =>
       \A d \in DemIds :
          dem[d].exists => ((dem[d].data_fechamento # NULL) <=> IsFinal(dem[d], sit))

(***************************************************************************)
(* SpecRace: the children of one task are saved by concurrent requests,    *)
(* through the view (autocommit) and through the admin inline (one         *)
(* transaction).                                                           *)
(***************************************************************************)
\* Task 1 with the children 2..; the children after the first two are
\* closed already.
RaceDemandas ==
    [d \in DemIds |->
        IF d = 1 THEN [RootDemanda EXCEPT !.situacao = 1]
        ELSE IF d <= 3 THEN [RootDemanda EXCEPT !.parent = 1, !.situacao = 1]
        ELSE [RootDemanda EXCEPT !.parent = 1, !.situacao = 3, !.data_fechamento = 1]]

InitRace ==
    /\ sit = Catalog(<<NomeExec, NomePend, NomeFinal>>)
    /\ dem = RaceDemandas
    /\ pen = [q \in PenIds |-> NoPendencia]
    /\ today = 1
    /\ InitProcs

\* The statuses that is_final accepts: the targets of the racing saves.
FinalSits == {s \in SitIds : NomeIsFinal(sit[s].nome)}

NextRace ==
    \E p \in Procs :
       \/ \E c \in DemIds \ {1}, t \in FinalSits : BeginAlterarStatus(p, c, t, FALSE)
       \/ \E c \in DemIds \ {1}, t \in FinalSits :
             BeginInlineSubitem(p, c, t, dem[c].data_prazo, dem[c].responsavel, TRUE)
       \/ DemSave(p)
       \/ DemPost(p)
       \/ WalkRead(p)
       \/ WalkUpdate(p)
       \/ DemAfter(p)
       \/ Commit(p)
       \/ Return(p)

SpecRace == InitRace /\ [][NextRace]_vars

\* Process p has finished a save that moved a child of par from a
\* non-terminal to a terminal status.
ClosedChild(p, par) ==
    /\ pc[p] = "done" /\ loc[p].op \in SaveOps
    /\ loc[p].inst.parent = par
    /\ ~IsFinal(loc[p].pre.dem[loc[p].inst.pk], loc[p].pre.sit)
    /\ IsFinal(loc[p].inst, sit)

\* C3: when two concurrent saves each move a different sibling to a
\* terminal status and every other sibling is terminal, the parent is
\* terminal once both saves have committed.
C3_NoLostUpdate ==
    \A p, q \in Procs, par \in DemIds :
       (/\ p # q
        /\ ClosedChild(p, par) /\ ClosedChild(q, par)
        /\ loc[p].inst.pk # loc[q].inst.pk
        /\ AllFinal(Tables, par))
          => IsFinal(dem[par], sit)

(***************************************************************************)
(* SpecParent: tasks are closed through the view and given a parent        *)
(* through the admin change form, one request at a time.                   *)
(***************************************************************************)
InitParent ==
    /\ sit = Catalog(<<NomeExec, NomePend, NomeFinal>>)
    /\ dem = [d \in DemIds |-> RootDemanda]
    /\ pen = [q \in PenIds |-> NoPendencia]
    /\ today = 1
    /\ InitProcs

NextParent ==
    \/ \E d \in DemIds, par \in DemIds \cup {NULL} :
          BeginAdminChange(1, d, par, dem[d].data_inicio, dem[d].data_prazo,
                           dem[d].responsavel, FALSE, TRUE)
    \/ \E d \in DemIds, t \in FinalSits : BeginAlterarStatus(1, d, t, FALSE)
    \/ DemSave(1)
    \/ DemPost(1)
    \/ WalkRead(1)
    \/ WalkUpdate(1)
    \/ DemAfter(1)
    \/ Commit(1)
    \/ Return(1)

SpecParent == InitParent /\ [][NextParent]_vars

\* The request's process keeps running the loop of demanda_post_save.
SpecParentFair ==
    SpecParent /\ WF_vars(WalkRead(1)) /\ WF_vars(WalkUpdate(1))

\* The tasks met by following the parent references of d, at most n times.
RECURSIVE Chain(_, _, _)
Chain(demv, d, n) ==
    IF n = 0 \/ demv[d].parent = NULL THEN {}
    ELSE {demv[d].parent} \cup Chain(demv, demv[d].parent, n - 1)

Ancestors(demv, d) == Chain(demv, d, NDem)

Cyclic(demv) == \E d \in DemIds : d \in Ancestors(demv, d)

\* C5: an update that sets the parent of a task to the task itself or to one
\* of its descendants leaves every parent reference as it was, and the
\* parent relation of the persisted tasks has no cycle.
C5_NoCycle ==
    Quiet =>
       /\ ~Cyclic(dem)
       /\ \A p \in Procs :
             (/\ pc[p] = "done" /\ loc[p].op = "AdminChange"
              /\ LET d == loc[p].inst.pk
                     par == loc[p].inst.parent
                 IN  par # NULL /\ (par = d \/ d \in Ancestors(loc[p].pre.dem, par)))
                => \A d \in DemIds : dem[d].parent = loc[p].pre.dem[d].parent

\* C6: the walk up the parents that a save starts comes to its end.
C6_WalkTerminates == (pc[1] = "walk") ~> (pc[1] = "dem_after")

(***************************************************************************)
(* SpecSitRace: statuses are marked as default by concurrent requests,     *)
(* each in autocommit or in one transaction.                               *)
(***************************************************************************)
NextSitRace ==
    \E p \in Procs :
       \/ \E s \in SitIds, atm \in BOOLEAN :
             BeginSaveSituacao(p, s, sit[s].nome, TRUE, sit[s].pendente, atm)
       \/ SitSave(p)
       \/ SitPostPadrao(p)
       \/ SitPostPendente(p)
       \/ Commit(p)
       \/ Return(p)

SpecSitRace == InitSit /\ [][NextSitRace]_vars

\* C7: when two concurrent requests each mark a different status as
\* default, exactly one status carries the default flag once both are over.
C7_ExactlyOneDefault ==
    \A p, q \in Procs :
       (/\ p # q
        /\ pc[p] = "done" /\ loc[p].op = "SaveSituacao" /\ loc[p].inst.padrao
        /\ pc[q] = "done" /\ loc[q].op = "SaveSituacao" /\ loc[q].inst.padrao
        /\ loc[p].inst.pk # loc[q].inst.pk)
          => Cardinality(Defaults(sit)) = 1

(***************************************************************************)
(* SpecPend: one task whose status is changed through the view, with or    *)
(* without a pendency description, and whose pendencies are resolved and   *)
(* reopened through the admin inline, one request at a time.               *)
(***************************************************************************)
\* Catalogs with and without statuses named for the executing and the
\* pending role, and one whose pending status is marked by the flag only.
PendCatalogs ==
    {Catalog(<<NomeExec, NomePend, NomeFinal>>),
     Catalog(<<NomeNovo, NomePend, NomeFinal>>),
     Catalog(<<NomeExec, NomeNovo, NomeFinal>>),
     [Catalog(<<NomeExec, NomeNovo, NomeFinal>>) EXCEPT ![2].pendente = TRUE]}

InitPend ==
    /\ sit \in PendCatalogs
    /\ dem = [d \in DemIds |-> IF d = 1 THEN RootDemanda ELSE NoDemanda]
    /\ pen = [q \in PenIds |-> NoPendencia]
    /\ today = 1
    /\ InitProcs

NextPend ==
    \/ \E t \in SitIds, desc \in BOOLEAN : BeginAlterarStatus(1, 1, t, desc)
    \/ \E t \in SitIds : AlterarStatusGet(1, 1, t)
    \/ \E q \in PenIds, r \in BOOLEAN, atm \in BOOLEAN : BeginSavePendencia(1, q, r, atm)
    \/ DemSave(1)
    \/ DemPost(1)
    \/ WalkRead(1)
    \/ DemAfter(1)
    \/ PenPreSave(1)
    \/ PenSave(1)
    \/ PenPost(1)
    \/ Commit(1)
    \/ Return(1)
    \/ Tick

SpecPend == InitPend /\ [][NextPend]_vars

\* Process p has finished the save of a pendency whose persisted
\* `resolvida` was `from` and whose saved `resolvida` is `to`.
PendSaved(p, from, to) ==
    /\ pc[p] = "done" /\ loc[p].op = "SavePendencia"
    /\ loc[p].pre.pen[loc[p].inst.pk].resolvida = from
    /\ loc[p].inst.resolvida = to

\* The row of the task that owns the pendency process p saved, now and
\* before the save.
Owner(p) == dem[loc[p].inst.demanda]
OwnerBefore(p) == loc[p].pre.dem[loc[p].inst.demanda]

\* C8: after an open pendency is saved as resolved, its resolution time is
\* set (to the current time if it was unset) and, when a status of the
\* executing role exists, the owning task has that status and no closure
\* date.
C8_ResolveEffects ==
    \A p \in Procs :
       PendSaved(p, FALSE, TRUE) =>
          LET q == loc[p].inst.pk
          IN  /\ pen[q].resolvido_em # NULL
              /\ loc[p].pre.pen[q].resolvido_em = NULL => pen[q].resolvido_em = today
              /\ ExecSit(sit) # NULL =>
                    /\ Owner(p).situacao = ExecSit(sit)
                    /\ Owner(p).data_fechamento = NULL

\* C8: a pendency of a closed task has just been resolved, and the task is
\* back in the executing status with no closure date.
C8_Witness ==
    \E p \in Procs :
       /\ PendSaved(p, FALSE, TRUE)
       /\ OwnerBefore(p).data_fechamento # NULL
       /\ OwnerBefore(p).situacao # ExecSit(sit)
       /\ Owner(p).situacao = ExecSit(sit)
       /\ Owner(p).data_fechamento = NULL
       /\ pen[loc[p].inst.pk].resolvido_em = today

\* The statuses of the pending role: flagged as pending, or named so.
PendingRole(sitv) ==
    {s \in SitIds : sitv[s].pendente \/ IContains(sitv[s].nome, StrPend)}

\* C9: after a resolved pendency is saved as open, its resolution time is
\* null and, when a status of the pending role exists (by flag or by name),
\* the owning task has a pending status and no closure date.
C9_ReopenEffects ==
    \A p \in Procs :
       PendSaved(p, TRUE, FALSE) =>
          /\ pen[loc[p].inst.pk].resolvido_em = NULL
          /\ PendingRole(sit) # {} =>
                /\ Owner(p).situacao \in PendingRole(sit)
                /\ Owner(p).data_fechamento = NULL

\* C10: a save of a pendency whose `resolvida` equals the persisted one, and
\* the creation of an open pendency, leave the owning task's status and
\* closure date and the pendency's resolution time as they were; the
\* direction is decided from the value persisted before the write.
C10_NoTransitionNoEffect ==
    \A p \in Procs :
       /\ (pc[p] = "done" /\ loc[p].op = "SavePendencia") =>
             /\ loc[p].was = loc[p].pre.pen[loc[p].inst.pk].resolvida
             /\ loc[p].was = loc[p].inst.resolvida =>
                   /\ Owner(p).situacao = OwnerBefore(p).situacao
                   /\ Owner(p).data_fechamento = OwnerBefore(p).data_fechamento
                   /\ pen[loc[p].inst.pk].resolvido_em
                         = loc[p].pre.pen[loc[p].inst.pk].resolvido_em
       /\ (pc[p] = "done" /\ loc[p].op = "AlterarStatus" /\ loc[p].desc) =>
             /\ dem[loc[p].inst.pk].situacao = loc[p].inst.situacao
             /\ \A q \in PenIds :
                   (pen[q].exists /\ ~loc[p].pre.pen[q].exists) =>
                      ~pen[q].resolvida /\ pen[q].resolvido_em = NULL

\* C10: a resolved pendency of a closed task has just been saved as
\* resolved again, and the task is still closed.
C10_Witness ==
    \E p \in Procs :
       /\ PendSaved(p, TRUE, TRUE)
       /\ OwnerBefore(p).data_fechamento # NULL
       /\ Owner(p) = OwnerBefore(p)
       /\ pen[loc[p].inst.pk].resolvido_em # NULL

\* C11: between the requests of a sequence of toggles, every pendency has a
\* resolution time exactly when it is resolved, and a save of resolvida =
\* False on a pendency that is open changes neither the pendency nor the
\* owning task.
C11_ResolvidoEmIffResolvida ==
    /\ Quiet =>
          \A q \in PenIds :
             pen[q].exists => ((pen[q].resolvido_em # NULL) <=> pen[q].resolvida)
    /\ \A p \in Procs :
          PendSaved(p, FALSE, FALSE) =>
             /\ pen[loc[p].inst.pk] = loc[p].pre.pen[loc[p].inst.pk]
             /\ Owner(p) = OwnerBefore(p)

\* C11: a pendency that was resolved on an earlier day has just been
\* reopened, and its resolution time is cleared.
C11_Witness ==
    \E p \in Procs :
       /\ PendSaved(p, TRUE, FALSE)
       /\ loc[p].pre.pen[loc[p].inst.pk].resolvido_em # NULL
       /\ loc[p].pre.pen[loc[p].inst.pk].resolvido_em < today
       /\ pen[loc[p].inst.pk].resolvido_em = NULL

(***************************************************************************)
(* SpecSave: one task is created and edited through the admin forms and    *)
(* moved through the view, one request at a time, with and without a       *)
(* default status.                                                         *)
(***************************************************************************)
SaveCatalogs ==
    {Catalog(<<NomeNovo, NomeExec, NomeFinal>>),
     [Catalog(<<NomeNovo, NomeExec, NomeFinal>>) EXCEPT ![1].padrao = TRUE],
     [Catalog(<<NomeNovo, NomeExec, NomeFinal>>) EXCEPT ![2].padrao = TRUE]}

InitSave ==
    /\ sit \in SaveCatalogs
    /\ dem = [d \in DemIds |-> NoDemanda]
    /\ pen = [q \in PenIds |-> NoPendencia]
    /\ today = 1
    /\ InitProcs

\* The dates a form can carry.
FormDates == Days \cup {NULL}

NextSave ==
    \/ \E ini \in FormDates, prazo \in FormDates :
          BeginAdminAdd(1, 1, NULL, ini, prazo, NULL, FALSE, TRUE)
    \/ \E ini \in FormDates, prazo \in FormDates :
          BeginAdminChange(1, 1, NULL, ini, prazo, NULL, FALSE, TRUE)
    \/ \E t \in SitIds : BeginAlterarStatus(1, 1, t, FALSE)
    \/ DemSave(1)
    \/ DemPost(1)
    \/ WalkRead(1)
    \/ DemAfter(1)
    \/ Commit(1)
    \/ Return(1)

SpecSave == InitSave /\ [][NextSave]_vars

\* The requests that call Demanda.save.
DemandaSaves == SaveOps \cup {"AdminAdd"}

\* Process p has finished a request that saved a task.
DemandaSaved(p) == pc[p] = "done" /\ loc[p].op \in DemandaSaves

\* C12: a task saved with no status while a status is marked as default is
\* persisted with the default status, and a task saved with a status keeps
\* that status.
C12_DefaultStatus ==
    \A p \in Procs :
       DemandaSaved(p) =>
          LET a == loc[p].arg
          IN  /\ (a.situacao = NULL /\ Defaults(sit) # {}) =>
                    dem[a.pk].situacao \in Defaults(sit)
              /\ a.situacao # NULL => dem[a.pk].situacao = a.situacao

\* C12: a task has just been created with no status while the second
\* status is the default one, and it carries that status.
C12_Witness ==
    \E p \in Procs :
       /\ DemandaSaved(p) /\ loc[p].op = "AdminAdd"
       /\ loc[p].arg.situacao = NULL
       /\ Defaults(sit) = {2}
       /\ dem[loc[p].arg.pk].situacao = 2

\* C13: a task saved with a start date D and no due date is persisted with
\* the due date D + 7 days; saved with both dates it keeps its due date;
\* saved with no start date it keeps the due date it was given.
C13_DueDate ==
    \A p \in Procs :
       DemandaSaved(p) =>
          LET a == loc[p].arg
              r == dem[a.pk]
          IN  /\ (a.data_inicio # NULL /\ a.data_prazo = NULL) =>
                    r.data_prazo = a.data_inicio + PrazoDias
              /\ (a.data_inicio # NULL /\ a.data_prazo # NULL) =>
                    r.data_prazo = a.data_prazo
              /\ a.data_inicio = NULL => r.data_prazo = a.data_prazo

\* C13: a task has just been created with the start date of the last day
\* and no due date, and its due date is seven days later.
C13_Witness ==
    \E p \in Procs :
       /\ DemandaSaved(p) /\ loc[p].op = "AdminAdd"
       /\ loc[p].arg.data_inicio = MaxDay /\ loc[p].arg.data_prazo = NULL
       /\ dem[loc[p].arg.pk].data_prazo = MaxDay + PrazoDias

\* Process p has finished a change of a task that had a due date, with the
\* due date cleared and the start date kept.
DueDateCleared(p) ==
    /\ pc[p] = "done" /\ loc[p].op = "AdminChange"
    /\ loc[p].pre.dem[loc[p].arg.pk].data_prazo # NULL
    /\ loc[p].pre.dem[loc[p].arg.pk].data_inicio # NULL
    /\ loc[p].arg.data_inicio = loc[p].pre.dem[loc[p].arg.pk].data_inicio
    /\ loc[p].arg.data_prazo = NULL

\* C14, as stated: when the due date of a task is cleared and the task is
\* saved with its start date still present, the due date stays absent.
C14_DueDateStaysAbsent ==
    \A p \in Procs :
       DueDateCleared(p) => dem[loc[p].arg.pk].data_prazo = NULL

\* C14, amended: when the due date of a task is cleared and the task is
\* saved with its start date still present, the due date is derived again
\* as the start date + 7 days.
C14_DueDateRegenerated ==
    \A p \in Procs :
       DueDateCleared(p) =>
          dem[loc[p].arg.pk].data_prazo = loc[p].arg.data_inicio + PrazoDias

\* C14: a task whose due date was an explicit day has had it cleared, and
\* it carries the derived due date.
C14_Witness ==
    \E p \in Procs :
       /\ DueDateCleared(p)
       /\ loc[p].pre.dem[loc[p].arg.pk].data_prazo \in Days
       /\ dem[loc[p].arg.pk].data_prazo = loc[p].arg.data_inicio + PrazoDias

(***************************************************************************)
(* SpecLife: a parent with two children; tasks are moved through the view, *)
(* re-parented through the admin change form and deleted, and their        *)
(* pendencies are raised, resolved and reopened, one request at a time.    *)
(***************************************************************************)
\* 'Exec' is the default status.
LifeCatalog == [Catalog(<<NomeExec, NomePend, NomeFinal>>) EXCEPT ![1].padrao = TRUE]

InitLife ==
    /\ sit = LifeCatalog
    /\ dem = [d \in DemIds |->
                [RootDemanda EXCEPT !.parent = IF d = 1 THEN NULL ELSE 1, !.situacao = 1]]
    /\ pen = [q \in PenIds |-> NoPendencia]
    /\ today = 1
    /\ InitProcs

\* The moves of the view: to a status named for the pending role with a
\* description, to another status without one.
LifeMoves == {<<t, IContains(sit[t].nome, StrPend)>> : t \in SitIds}

NextLife ==
    \/ \E d \in DemIds, m \in LifeMoves : BeginAlterarStatus(1, d, m[1], m[2])
    \/ \E d \in DemIds \ {1}, par \in {NULL, 1} :
          BeginAdminChange(1, d, par, dem[d].data_inicio, dem[d].data_prazo,
                           dem[d].responsavel, FALSE, TRUE)
    \/ \E d \in DemIds : BeginDeleteDemanda(1, d, TRUE)
    \/ \E q \in PenIds, r \in BOOLEAN : BeginSavePendencia(1, q, r, TRUE)
    \/ DemSave(1)
    \/ DemPost(1)
    \/ WalkRead(1)
    \/ WalkUpdate(1)
    \/ DemAfter(1)
    \/ DemDelete(1)
    \/ PenPreSave(1)
    \/ PenSave(1)
    \/ PenPost(1)
    \/ Commit(1)
    \/ Return(1)

SpecLife == InitLife /\ [][NextLife]_vars

\* C15: no request removes a pendency: every pendency that existed when a
\* request started exists when the request is over.
C15_PendenciaKept ==
    \A p \in Procs :
       pc[p] = "done" =>
          \A q \in PenIds : loc[p].pre.pen[q].exists => pen[q].exists

\* The statuses of a table that carry the pending flag.
Pendentes(sitv) == {s \in SitIds : sitv[s].pendente}

\* Process p has finished the save of a status.
SituacaoSaved(p) == pc[p] = "done" /\ loc[p].op = "SaveSituacao"

\* C16: when status saves run one at a time, at most one status carries the
\* pending flag once a save is over; a save that does not change the
\* status's own default flag changes no default flag, and a save that does
\* not change its own pending flag changes no pending flag.
C16_SinglePendente ==
    Quiet =>
       /\ Cardinality(Pendentes(sit)) <= 1
       /\ \A p \in Procs :
             SituacaoSaved(p) =>
                LET i == loc[p].inst
                    old == loc[p].pre.sit
                IN  /\ i.pendente => Pendentes(sit) = {i.pk}
                    /\ i.padrao = old[i.pk].padrao => Defaults(sit) = Defaults(old)
                    /\ i.pendente = old[i.pk].pendente => Pendentes(sit) = Pendentes(old)

\* C16: a save has just marked a status as pending while another status
\* carried the pending flag and a third one the default flag, which it
\* still carries.
C16_Witness ==
    \E p \in Procs :
       /\ SituacaoSaved(p) /\ loc[p].inst.pendente
       /\ Pendentes(loc[p].pre.sit) # {}
       /\ loc[p].inst.pk \notin Pendentes(loc[p].pre.sit)
       /\ Defaults(loc[p].pre.sit) # {}
       /\ loc[p].inst.pk \notin Defaults(loc[p].pre.sit)
       /\ Defaults(sit) = Defaults(loc[p].pre.sit)
       /\ Pendentes(sit) = {loc[p].inst.pk}

\* The statuses of the executing role: named so.
ExecRole(sitv) == {s \in SitIds : IContains(sitv[s].nome, StrExec)}

\* C17: when a pendency is resolved and no status of the executing role
\* exists, or is reopened and no status of the pending role exists, the
\* request comes to its end, the pendency's resolvida and resolution time
\* change as in any transition, and the owning task is left as it was.
C17_MissingRoleNoOp ==
    \A p \in Procs :
       LET q == loc[p].inst.pk
       IN  /\ (PendSaved(p, FALSE, TRUE) /\ ExecRole(sit) = {}) =>
                 /\ pen[q].resolvida /\ pen[q].resolvido_em # NULL
                 /\ Owner(p) = OwnerBefore(p)
           /\ (PendSaved(p, TRUE, FALSE) /\ PendingRole(sit) = {}) =>
                 /\ ~pen[q].resolvida /\ pen[q].resolvido_em = NULL
                 /\ Owner(p) = OwnerBefore(p)

\* C17: a pendency of a task has just been resolved with no status named
\* for the executing role, and the task kept its status.
C17_Witness ==
    \E p \in Procs :
       /\ PendSaved(p, FALSE, TRUE) /\ ExecRole(sit) = {}
       /\ pen[loc[p].inst.pk].resolvido_em = today
       /\ OwnerBefore(p).situacao \notin {NULL, First(SitIds)}
       /\ Owner(p) = OwnerBefore(p)

\* The ancestors of d from its parent up to a.
UpTo(demv, d, a) ==
    {b \in Ancestors(demv, d) : b = a \/ a \in Ancestors(demv, b)}

\* C18: after a task is saved terminal, every ancestor such that at each
\* level from the parent up to it all direct children are terminal is
\* terminal, with the latest closure date of its direct children.
C18_MultiLevelCascade ==
    \A p \in Procs :
       (DemandaSaved(p) /\ IsFinal(dem[loc[p].inst.pk], sit)) =>
          \A a \in Ancestors(dem, loc[p].inst.pk) :
             (\A b \in UpTo(dem, loc[p].inst.pk, a) : AllFinal(Tables, b)) =>
                /\ IsFinal(dem[a], sit)
                /\ dem[a].data_fechamento = ClosureMax(a)

(***************************************************************************)
(* SpecRename: the tasks of a chain are closed through the view while the  *)
(* statuses are renamed through the admin, by concurrent requests.         *)
(***************************************************************************)
InitRename ==
    /\ sit = Catalog(<<NomeExec, NomePend, NomeFinal>>)
    /\ dem = [d \in DemIds |-> [RootDemanda EXCEPT !.parent = d - 1, !.situacao = 1]]
    /\ pen = [q \in PenIds |-> NoPendencia]
    /\ today = 1
    /\ InitProcs

\* The names the terminal status is given.
RenameNomes == {NomeNovo, NomeFinal}

NextRename ==
    \/ \E d \in DemIds, t \in FinalSits : BeginAlterarStatus(1, d, t, FALSE)
    \/ \E s \in SitIds \ (ExecRole(sit) \cup PendingRole(sit)), n \in RenameNomes,
          atm \in BOOLEAN :
             BeginSaveSituacao(2, s, n, sit[s].padrao, sit[s].pendente, atm)
    \/ \E p \in Procs :
          \/ DemSave(p)
          \/ DemPost(p)
          \/ WalkRead(p)
          \/ WalkUpdate(p)
          \/ DemAfter(p)
          \/ SitSave(p)
          \/ SitPostPadrao(p)
          \/ SitPostPendente(p)
          \/ Commit(p)
          \/ Return(p)

SpecRename == InitRename /\ [][NextRename]_vars

\* C19: the walk stops at the first ancestor with a non-terminal direct
\* child, and stops when it finds no final status; in both cases the step
\* that stops and the rest of the request modify no task.
C19_WalkStops ==
    [][\A p \in Procs :
          /\ (pc[p] = "walk" /\ pc'[p] = "dem_after") => UNCHANGED <<dem, tx>>
          /\ (pc[p] = "walk_update" /\ pc'[p] # "walk_update"
                 /\ FinalSit(View(p).sit) = NULL) =>
                (pc'[p] = "dem_after" /\ UNCHANGED <<dem, tx>>)
          /\ (pc[p] = "dem_after" /\ pc'[p] # "dem_after") =>
                (dem' = dem /\ tx'[p].dem = tx[p].dem)]_vars

\* C20: between requests, with a final status configured, every task that
\* has a child and whose direct children are all terminal is terminal.
C20_ParentsClosed ==
    (Quiet /\ HasFinal) =>
       \A d \in DemIds :
          (dem[d].exists /\ Subitens(dem, d) # {} /\ AllFinal(Tables, d))
             => IsFinal(dem[d], sit)


\* Row r with its status and closure date left out.
Unowned(r) == [r EXCEPT !.situacao = NULL, !.data_fechamento = NULL]

\* C21: a save that resolves or reopens a pendency changes nothing but the
\* resolvida and resolution time of that pendency and the status and closure
\* date of the owning task: every other task, the parent and the siblings of
\* the owning task included, every other pendency and every status are as
\* they were before the save.
C21_TransitionFrame ==
    \A p \in Procs :
       (PendSaved(p, FALSE, TRUE) \/ PendSaved(p, TRUE, FALSE)) =>
          LET q == loc[p].inst.pk
              o == loc[p].inst.demanda
              pre == loc[p].pre
          IN  /\ sit = pre.sit
              /\ \A d \in DemIds \ {o} : dem[d] = pre.dem[d]
              /\ Unowned(dem[o]) = Unowned(pre.dem[o])
              /\ \A r \in PenIds \ {q} : pen[r] = pre.pen[r]
              /\ pen[q].exists = pre.pen[q].exists
              /\ pen[q].demanda = pre.pen[q].demanda

\* C21: a pendency of a task whose parent is terminal has just been resolved:
\* the task left its status for the executing one, and its parent and its
\* sibling are as they were.
C21_Witness ==
    \E p \in Procs :
       /\ PendSaved(p, FALSE, TRUE)
       /\ Owner(p).situacao # OwnerBefore(p).situacao
       /\ Owner(p).parent # NULL
       /\ IsFinal(dem[Owner(p).parent], sit)
       /\ \E c \in Subitens(dem, Owner(p).parent) : c # loc[p].inst.demanda


(***************************************************************************)
(* SpecPenRace: two requests save the same pendency of one task through    *)
(* the admin inline, their steps interleaved.                              *)
(***************************************************************************)
\* The pendency is open and its task waits in the pending status, or it is
\* resolved and its task is back in the executing status.
RacePendencias ==
    {<<[exists |-> TRUE, demanda |-> 1, resolvida |-> FALSE, resolvido_em |-> NULL], 2>>,
     <<[exists |-> TRUE, demanda |-> 1, resolvida |-> TRUE, resolvido_em |-> 1], 1>>}

InitPenRace ==
    /\ sit = Catalog(<<NomeExec, NomePend, NomeFinal>>)
    /\ \E s \in RacePendencias :
          /\ pen = [q \in PenIds |-> IF q = 1 THEN s[1] ELSE NoPendencia]
          /\ dem = [d \in DemIds |->
                      IF d = 1 THEN [RootDemanda EXCEPT !.situacao = s[2]] ELSE NoDemanda]
    /\ today = 1
    /\ InitProcs

NextPenRace ==
    \/ \E p \in Procs, r \in BOOLEAN, atm \in BOOLEAN : BeginSavePendencia(p, 1, r, atm)
    \/ \E p \in Procs :
          \/ PenPreSave(p)
          \/ PenSave(p)
          \/ PenPost(p)
          \/ Commit(p)
          \/ Return(p)
    \/ Tick

SpecPenRace == InitPenRace /\ [][NextPenRace]_vars

\* C22: once two saves of the same pendency have both come to their end,
\* whatever the order of their steps, the pendency's resolution time is set
\* exactly when the pendency is resolved.
C22_RaceResolvidoEm ==
    (\A p \in Procs : pc[p] = "done" /\ loc[p].op = "SavePendencia"
                         /\ loc[p].inst.pk = 1) =>
       (pen[1].resolvido_em # NULL <=> pen[1].resolvida)


(***************************************************************************)
(* SpecTake: a user takes a task while another request moves a child of it *)
(* to a terminal status or saves a pendency of it.                         *)
(***************************************************************************)
\* The users that take tasks.
Users == {1}

\* Task 1 with the children 2..: child 2 waits in the pending status with
\* the open pendency 1, the other children are closed.
TakeDemandas ==
    [d \in DemIds |->
        IF d = 1 THEN [RootDemanda EXCEPT !.situacao = 1]
        ELSE IF d = 2 THEN [RootDemanda EXCEPT !.parent = 1, !.situacao = 2]
        ELSE [RootDemanda EXCEPT !.parent = 1, !.situacao = 3, !.data_fechamento = 1]]

InitTake ==
    /\ sit = Catalog(<<NomeExec, NomePend, NomeFinal>>)
    /\ dem = TakeDemandas
    /\ pen = [q \in PenIds |->
                IF q = 1
                THEN [exists |-> TRUE, demanda |-> 2, resolvida |-> FALSE, resolvido_em |-> NULL]
                ELSE NoPendencia]
    /\ today = 1
    /\ InitProcs

NextTake ==
    \/ \E d \in {1, 2}, u \in Users : BeginTake(1, d, u)
    \/ \E t \in FinalSits : BeginAlterarStatus(2, 2, t, FALSE)
    \/ \E r \in BOOLEAN : BeginSavePendencia(2, 1, r, TRUE)
    \/ \E p \in Procs :
          \/ DemSave(p)
          \/ DemPost(p)
          \/ WalkRead(p)
          \/ WalkUpdate(p)
          \/ DemAfter(p)
          \/ PenPreSave(p)
          \/ PenSave(p)
          \/ PenPost(p)
          \/ Commit(p)
          \/ Return(p)

SpecTake == InitTake /\ [][NextTake]_vars

\* Process p has finished taking a task.
Taken(p) == pc[p] = "done" /\ loc[p].op = "Take"

\* C23: once a take of a task and another request are both over, whatever
\* the order of their steps: if the other request resolved (reopened) a
\* pendency of the task, the task has the executing (pending) status and no
\* closure date; if the other request saved a child of the task terminal and
\* its walk closed the task, the task is terminal and has a closure date.
C23_TakeKeepsStatus ==
    \A p \in Procs, o \in Procs :
       (Taken(p) /\ o # p /\ pc[o] = "done") =>
          LET d == loc[p].inst.pk
          IN  /\ (loc[o].op = "SavePendencia" /\ loc[o].inst.demanda = d
                     /\ ~loc[o].was /\ loc[o].inst.resolvida) =>
                    (dem[d].situacao = ExecSit(sit) /\ dem[d].data_fechamento = NULL)
              /\ (loc[o].op = "SavePendencia" /\ loc[o].inst.demanda = d
                     /\ loc[o].was /\ ~loc[o].inst.resolvida) =>
                    (dem[d].situacao = PendSit(sit) /\ dem[d].data_fechamento = NULL)
              /\ (loc[o].op = "AlterarStatus" /\ loc[o].inst.parent = d
                     /\ loc[o].cur # d) =>
                    (IsFinal(dem[d], sit) /\ dem[d].data_fechamento # NULL)


(***************************************************************************)
(* SpecStatus: the status of one task is changed through the view, for     *)
(* several graphs of allowed next statuses, one request at a time.         *)
(***************************************************************************)
\* proximas_situacoes of each status: no edge at all; the workflow
\* 'Exec' -> 'Pend', 'Final' and 'Pend' -> 'Exec'; every edge.
ProximasGraphs ==
    {[s \in SitIds |-> {}],
     [s \in SitIds |-> IF s = 1 THEN {2, 3} \cap SitIds ELSE IF s = 2 THEN {1} ELSE {}],
     [s \in SitIds |-> SitIds]}

InitStatus ==
    /\ \E g \in ProximasGraphs :
          sit = [s \in SitIds |->
                   [Catalog(<<NomeExec, NomePend, NomeFinal>>)[s] EXCEPT
                      !.proximas_situacoes = g[s]]]
    /\ \E s \in SitIds :
          dem = [d \in DemIds |->
                   IF d = 1
                   THEN [RootDemanda EXCEPT
                           !.situacao = s,
                           !.data_fechamento = IF NomeIsFinal(sit[s].nome) THEN 1 ELSE NULL]
                   ELSE NoDemanda]
    /\ pen = [q \in PenIds |-> NoPendencia]
    /\ today = 1
    /\ InitProcs

NextStatus ==
    \/ \E t \in SitIds, desc \in BOOLEAN : BeginAlterarStatus(1, 1, t, desc)
    \/ \E t \in SitIds : AlterarStatusGet(1, 1, t)
    \/ DemSave(1)
    \/ DemPost(1)
    \/ WalkRead(1)
    \/ DemAfter(1)
    \/ Commit(1)
    \/ Return(1)
    \/ Tick

SpecStatus == InitStatus /\ [][NextStatus]_vars

\* C24: after a POST of the view for a task in status S with the target T,
\* the task has left S only if T is among the allowed next statuses of S;
\* with T outside them the task is still in S.
C24_AllowedNextOnly ==
    \A p \in Procs :
       (pc[p] = "done" /\ loc[p].op = "AlterarStatus") =>
          LET d == loc[p].inst.pk
              S == loc[p].pre.dem[d].situacao
              T == loc[p].arg.situacao
          IN  (S # NULL /\ T \notin loc[p].pre.sit[S].proximas_situacoes) =>
                 dem[d].situacao = S


(***************************************************************************)
(* SpecPendTree: the pendencies of a task that has a parent and siblings   *)
(* are resolved and reopened through the admin inline, one request at a    *)
(* time.                                                                   *)
(***************************************************************************)
\* Task 1 with the children 2..; the children after 2 are closed.  Child 2
\* waits in the pending status, or was closed after its pendency was raised,
\* which closed task 1.
PendTrees ==
    {[d \in DemIds |->
        IF d = 1 THEN [RootDemanda EXCEPT !.situacao = 1]
        ELSE IF d = 2 THEN [RootDemanda EXCEPT !.parent = 1, !.situacao = 2]
        ELSE [RootDemanda EXCEPT !.parent = 1, !.situacao = 3, !.data_fechamento = 1]],
     [d \in DemIds |->
        IF d = 1 THEN [RootDemanda EXCEPT !.situacao = 3, !.data_fechamento = 1]
        ELSE [RootDemanda EXCEPT !.parent = 1, !.situacao = 3, !.data_fechamento = 1]]}

InitPendTree ==
    /\ sit = Catalog(<<NomeExec, NomePend, NomeFinal>>)
    /\ dem \in PendTrees
    /\ pen = [q \in PenIds |->
                [exists |-> TRUE, demanda |-> 2, resolvida |-> FALSE, resolvido_em |-> NULL]]
    /\ today = 1
    /\ InitProcs

NextPendTree ==
    \/ \E q \in PenIds, r \in BOOLEAN, atm \in BOOLEAN : BeginSavePendencia(1, q, r, atm)
    \/ PenPreSave(1)
    \/ PenSave(1)
    \/ PenPost(1)
    \/ Commit(1)
    \/ Return(1)
    \/ Tick

SpecPendTree == InitPendTree /\ [][NextPendTree]_vars

====
